---- MODULE Spec2Model ----
(***************************************************************************)
(* A model of the multi-user LinkedIn content assistant backend            *)
(* (src/api.py, src/linkedin_assistant.py): the relational store, bearer   *)
(* token sessions, the monthly quota gate, the manual monitoring and       *)
(* brainstorm requests, the profile, digest, topic-status and admin        *)
(* routes, the daily cadence scheduler, and ContentAssistant.save_post.    *)
(*                                                                         *)
(* Time.  An instant is a natural number of ticks.  A day has TicksPerDay  *)
(* ticks; the tick within a day stands for the microsecond field of        *)
(* datetime.now() (hour, minute and second of every modelled instant are   *)
(* zero).  Tick 0 is 2027-02-01T00:00:00, a Monday; the calendar covers    *)
(* February 2027 (28 days) and March 2027.  ISO-8601 strings of naive      *)
(* datetimes compare as the instants they denote, so the TEXT comparisons  *)
(* of the store are comparisons of ticks.                                  *)
(***************************************************************************)
EXTENDS Integers, Sequences, FiniteSets, TLC

\* ------------------------------------------------------------------ bounds
MaxUsers == 2
MaxSessions == 3
MaxInFlight == 2
MaxCalls == 2
MaxTopics == 2
MaxActivity == 4
MaxPosts == 3
TicksPerDay == 2

\* --------------------------------------------------------- program constants
SessionDays == 30
DefaultMonthlyLimit == 100
Monday == 0
BiweeklyLastDay == 14
DefaultRelevance == 5

VARIABLES
    now,            \* datetime.now(): the wall clock, in ticks
    apiKey,         \* os.getenv("ANTHROPIC_API_KEY") is set
    users,          \* table users: row id = index
    profiles,       \* table user_profiles: one row per user id
    sessions,       \* table sessions: token = index
    topics,         \* table topics: row id = index
    usage_log,      \* table usage_log (append-only)
    activity_log,   \* table activity_log (append-only)
    req,            \* request handlers in flight, one per worker slot
    sched,          \* the background job run_all_user_monitoring
    extCalls,       \* external LLM calls (client.messages.create) made since Init
    posts,          \* table posts of ContentAssistant's database: row id = index
    last            \* the response of the request that completed last

vars == <<now, apiKey, users, profiles, sessions, topics, usage_log,
          activity_log, req, sched, extCalls, posts, last>>

store == <<users, profiles, sessions, topics, usage_log, activity_log>>

\* ------------------------------------------------------------------ calendar
FebDays == 28 * TicksPerDay

DayIndex(t) == t \div TicksPerDay

\* datetime.replace(day=1, hour=0, minute=0, second=0, microsecond=0)
MonthStart(t) == IF t < FebDays THEN 0 ELSE FebDays

\* datetime.day
DayOfMonth(t) == IF t < FebDays THEN DayIndex(t) + 1 ELSE DayIndex(t) - 28 + 1

\* datetime.weekday(): Monday is 0
Weekday(t) == DayIndex(t) % 7

\* datetime.microsecond
Micro(t) == t % TicksPerDay

\* timedelta(days=d)
Days(d) == d * TicksPerDay

\* ------------------------------------------------------------------ inputs
Emails == {"a@x.com", "b@x.com"}
Passwords == {"pw", "bad"}
Slots == 1..MaxInFlight
Limits == {0, 1, 2}
Frequencies == {"daily", "weekly", "biweekly"}
NoHeader == 0
TokenInputs == 0..MaxSessions

\* ------------------------------------------------------------------ helpers
hash_password(pw) == <<"sha256", pw>>

\* the background job at rest; while it runs: today, the rows fetched, the
\* position in them, and the ids examined, selected and failed so far
SchedIdle == [pc |-> "idle", today |-> 0, rows |-> <<>>, idx |-> 0,
              examined |-> <<>>, selected |-> <<>>, failed |-> <<>>]

\* a worker slot: the handler's local variables; at = the instant it was entered
Idle == [op |-> "none", pc |-> "idle", user |-> 0, limit |-> 0, email |-> "",
         first |-> FALSE, topic |-> 0, version |-> 0, status |-> "", at |-> 0]

\* a response: the route, the token and user it was for, the HTTP status, the
\* topics_found it reports, the LLM reply text it was computed from, and the
\* ids of the rows in its body
Resp(op, tok, user, status, found) ==
    [op |-> op, tok |-> tok, user |-> user, status |-> status, found |-> found,
     reply |-> <<>>, rows |-> <<>>]

\* get_user_from_token with the expiry test off by one tick (<= for <)
get_user_from_token_expiry_inclusive(tok) ==
    IF tok = NoHeader \/ tok \notin DOMAIN sessions
      THEN [status |-> 401, id |-> 0, is_admin |-> FALSE, monthly_limit |-> 0]
    ELSE LET s == sessions[tok]
             u == users[s.user_id]
         IN  IF s.expires_at <= now
               THEN [status |-> 401, id |-> 0, is_admin |-> FALSE, monthly_limit |-> 0]
             ELSE IF ~u.is_active
               THEN [status |-> 403, id |-> 0, is_admin |-> FALSE, monthly_limit |-> 0]
             ELSE [status |-> 200, id |-> s.user_id, is_admin |-> u.is_admin,
                   monthly_limit |-> u.monthly_limit]

\* get_user_from_token without the is_active test
get_user_from_token_no_active_check(tok) ==
    IF tok = NoHeader \/ tok \notin DOMAIN sessions
      THEN [status |-> 401, id |-> 0, is_admin |-> FALSE, monthly_limit |-> 0]
    ELSE LET s == sessions[tok]
             u == users[s.user_id]
         IN  IF s.expires_at < now
               THEN [status |-> 401, id |-> 0, is_admin |-> FALSE, monthly_limit |-> 0]
             ELSE [status |-> 200, id |-> s.user_id, is_admin |-> u.is_admin,
                   monthly_limit |-> u.monthly_limit]

\* get_user_from_token: 401 without header, 401 unknown token, 401 expired,
\* 403 suspended, else the user row joined to the session.
get_user_from_token(tok) ==
    IF tok = NoHeader THEN [status |-> 401, id |-> 0, is_admin |-> FALSE, monthly_limit |-> 0]
    ELSE IF tok \notin DOMAIN sessions
      THEN [status |-> 401, id |-> 0, is_admin |-> FALSE, monthly_limit |-> 0]
    ELSE LET s == sessions[tok]
             u == users[s.user_id]
         IN  IF s.expires_at < now
               THEN [status |-> 401, id |-> 0, is_admin |-> FALSE, monthly_limit |-> 0]
             ELSE IF ~u.is_active
               THEN [status |-> 403, id |-> 0, is_admin |-> FALSE, monthly_limit |-> 0]
             ELSE [status |-> 200, id |-> s.user_id, is_admin |-> u.is_admin,
                   monthly_limit |-> u.monthly_limit]

\* log_activity: one row appended to activity_log
log_activity(user_id, action, details) ==
    Append(activity_log, [user_id |-> user_id, action |-> action, details |-> details])

Opt(S) == {{}} \cup {{v} : v \in S}

\* a field of a partial update: the supplied value, or the prior one
Patched(p, old) == IF p = {} THEN old ELSE CHOOSE v \in p : TRUE

default_profile ==
    [focus_areas |-> "default", target_audience |-> "default",
     content_goals |-> "default", tone |-> "default",
     monitoring_frequency |-> "weekly"]

\* a sessions row issued now: expires_at = datetime.now() + timedelta(days=30)
NewSession(user_id) == [user_id |-> user_id, expires_at |-> now + Days(SessionDays)]

EmailRow(email) == {i \in DOMAIN users : users[i].email = email}

\* ------------------------------------------------------------------ Init
\* The store after init_multiuser_database() on a fresh file: every table empty.
Init ==
    /\ now = 0
    /\ apiKey \in BOOLEAN
    /\ users = <<>>
    /\ profiles = <<>>
    /\ sessions = <<>>
    /\ topics = <<>>
    /\ usage_log = <<>>
    /\ activity_log = <<>>
    /\ req = [r \in Slots |-> Idle]
    /\ sched = SchedIdle
    /\ extCalls = 0
    /\ posts = <<>>
    /\ last = Resp("none", 0, 0, 0, 0)

\* ------------------------------------------------------------------ signup
\* POST /auth/signup, first statement pair: SELECT COUNT(*) FROM users.
\* The SELECT runs outside any transaction; the INSERT that follows opens one.
SignupCount(r, email) ==
    /\ req[r].pc = "idle"
    /\ Len(users) < MaxUsers
    /\ req' = [req EXCEPT ![r] = [Idle EXCEPT !.op = "signup", !.pc = "counted",
                                   !.email = email, !.first = (Len(users) = 0)]]
    /\ UNCHANGED <<now, apiKey, posts, store, sched, extCalls, last>>

\* POST /auth/signup, the rest: INSERT users + user_profiles, commit, INSERT
\* sessions, commit, log_activity.  A duplicate email raises IntegrityError
\* (400) and nothing is committed.
SignupInsert(r) ==
    /\ req[r].pc = "counted"
    /\ req[r].op = "signup"
    /\ IF EmailRow(req[r].email) # {}
         THEN /\ last' = Resp("signup", 0, 0, 400, 0)
              /\ UNCHANGED store
         ELSE /\ Len(users) < MaxUsers
              /\ Len(sessions) < MaxSessions
              /\ Len(activity_log) < MaxActivity
              /\ users' = Append(users, [email |-> req[r].email,
                                         password_hash |-> hash_password("pw"),
                                         is_active |-> TRUE,
                                         is_admin |-> req[r].first,
                                         monthly_limit |-> DefaultMonthlyLimit])
              /\ profiles' = Append(profiles, default_profile)
              /\ sessions' = Append(sessions, NewSession(Len(users) + 1))
              /\ activity_log' = log_activity(Len(users) + 1, "signup", 0)
              /\ last' = Resp("signup", Len(sessions) + 1, Len(users) + 1, 200, 0)
              /\ UNCHANGED <<topics, usage_log>>
    /\ req' = [req EXCEPT ![r] = Idle]
    /\ UNCHANGED <<now, apiKey, posts, sched, extCalls>>

\* ------------------------------------------------------------------ login
\* login revoking the user's earlier sessions (their expiry is set to the past)
Login_revoke_earlier(email, pw) ==
    /\ LET rows == EmailRow(email) IN
       IF rows = {} \/ (\E i \in rows : users[i].password_hash # hash_password(pw))
         THEN /\ last' = Resp("login", 0, 0, 401, 0)
              /\ UNCHANGED store
         ELSE LET id == CHOOSE i \in rows : TRUE IN
              IF ~users[id].is_active
                THEN /\ last' = Resp("login", 0, id, 403, 0)
                     /\ UNCHANGED store
                ELSE /\ Len(sessions) < MaxSessions
                     /\ Len(activity_log) < MaxActivity
                     /\ sessions' = Append([t \in DOMAIN sessions |->
                                              IF sessions[t].user_id = id
                                                THEN [sessions[t] EXCEPT !.expires_at = -1]
                                                ELSE sessions[t]],
                                           NewSession(id))
                     /\ activity_log' = log_activity(id, "login", 0)
                     /\ last' = Resp("login", Len(sessions) + 1, id, 200, 0)
                     /\ UNCHANGED <<users, profiles, topics, usage_log>>
    /\ UNCHANGED <<now, apiKey, posts, req, sched, extCalls>>

\* POST /auth/login
Login(email, pw) ==
    /\ LET rows == EmailRow(email) IN
       IF rows = {} \/ (\E i \in rows : users[i].password_hash # hash_password(pw))
         THEN /\ last' = Resp("login", 0, 0, 401, 0)
              /\ UNCHANGED store
         ELSE LET id == CHOOSE i \in rows : TRUE IN
              IF ~users[id].is_active
                THEN /\ last' = Resp("login", 0, id, 403, 0)
                     /\ UNCHANGED store
                ELSE /\ Len(sessions) < MaxSessions
                     /\ Len(activity_log) < MaxActivity
                     /\ sessions' = Append(sessions, NewSession(id))
                     /\ activity_log' = log_activity(id, "login", 0)
                     /\ last' = Resp("login", Len(sessions) + 1, id, 200, 0)
                     /\ UNCHANGED <<users, profiles, topics, usage_log>>
    /\ UNCHANGED <<now, apiKey, posts, req, sched, extCalls>>

\* ------------------------------------------------------------------ GET /profile
\* An authenticated read: Depends(get_user_from_token), then get_user_profile.
GetProfile(tok) ==
    /\ LET u == get_user_from_token(tok) IN
       last' = Resp("get_profile", tok, u.id,
                    IF u.status # 200 THEN u.status
                    ELSE IF u.id \notin DOMAIN profiles THEN 404 ELSE 200, 0)
    /\ UNCHANGED <<now, apiKey, posts, store, req, sched, extCalls>>

\* ------------------------------------------------------------------ PUT /profile
\* UserSettings: every field optional ({} = None, {v} = the value v)
NoSettings ==
    [focus_areas |-> {}, target_audience |-> {}, content_goals |-> {}, tone |-> {},
     monitoring_frequency |-> {}]

\* the request bodies sent: nothing, each field alone, all fields, and an
\* invalid frequency alone and with a valid field
SettingsInputs ==
    { NoSettings,
      [NoSettings EXCEPT !.focus_areas = {"f2"}],
      [NoSettings EXCEPT !.target_audience = {"a2"}],
      [NoSettings EXCEPT !.content_goals = {"g2"}],
      [NoSettings EXCEPT !.tone = {"t2"}],
      [NoSettings EXCEPT !.monitoring_frequency = {"daily"}],
      [NoSettings EXCEPT !.monitoring_frequency = {"monthly"}],
      [NoSettings EXCEPT !.tone = {"t2"}, !.monitoring_frequency = {"monthly"}],
      [focus_areas |-> {"f2"}, target_audience |-> {"a2"}, content_goals |-> {"g2"},
       tone |-> {"t2"}, monitoring_frequency |-> {"biweekly"}] }

\* the UPDATE user_profiles SET ... of the supplied fields
PatchedProfile(old, settings) ==
    [focus_areas |-> Patched(settings.focus_areas, old.focus_areas),
     target_audience |-> Patched(settings.target_audience, old.target_audience),
     content_goals |-> Patched(settings.content_goals, old.content_goals),
     tone |-> Patched(settings.tone, old.tone),
     monitoring_frequency |-> Patched(settings.monitoring_frequency, old.monitoring_frequency)]

\* update_profile with the frequency validated after the UPDATE of the other
\* fields
update_profile_check_after(tok, settings) ==
    /\ LET u == get_user_from_token(tok)
           valid == settings.monitoring_frequency \subseteq Frequencies
           applied == IF valid THEN settings
                      ELSE [settings EXCEPT !.monitoring_frequency = {}]
       IN  IF u.status # 200
             THEN /\ last' = Resp("update_profile", 0, 0, u.status, 0)
                  /\ UNCHANGED <<profiles, activity_log>>
             ELSE /\ valid => Len(activity_log) < MaxActivity
                  /\ profiles' = [i \in DOMAIN profiles |->
                                    IF i = u.id THEN PatchedProfile(profiles[i], applied)
                                    ELSE profiles[i]]
                  /\ activity_log' = IF valid THEN log_activity(u.id, "update_profile", 0)
                                     ELSE activity_log
                  /\ last' = Resp("update_profile", 0, u.id, IF valid THEN 200 ELSE 400, 0)
    /\ UNCHANGED <<now, apiKey, posts, users, sessions, topics, usage_log, req, sched, extCalls>>

\* PUT /profile: the supplied fields are collected, an invalid
\* monitoring_frequency raises 400 before any statement is executed, then one
\* UPDATE ... WHERE user_id = ? sets them, and log_activity.
update_profile(tok, settings) ==
    /\ LET u == get_user_from_token(tok) IN
       IF u.status # 200
         THEN /\ last' = Resp("update_profile", 0, 0, u.status, 0)
              /\ UNCHANGED <<profiles, activity_log>>
       ELSE IF ~(settings.monitoring_frequency \subseteq Frequencies)
         THEN /\ last' = Resp("update_profile", 0, u.id, 400, 0)
              /\ UNCHANGED <<profiles, activity_log>>
       ELSE /\ Len(activity_log) < MaxActivity
            /\ profiles' = [i \in DOMAIN profiles |->
                              IF i = u.id THEN PatchedProfile(profiles[i], settings)
                              ELSE profiles[i]]
            /\ activity_log' = log_activity(u.id, "update_profile", 0)
            /\ last' = Resp("update_profile", 0, u.id, 200, 0)
    /\ UNCHANGED <<now, apiKey, posts, users, sessions, topics, usage_log, req, sched, extCalls>>

\* ------------------------------------------------------------------ admin
\* require_admin letting every authenticated user through
require_admin_no_flag_check(tok) == get_user_from_token(tok)

\* require_admin: the token's user must carry the admin flag
require_admin(tok) ==
    LET u == get_user_from_token(tok) IN
    IF u.status = 200 /\ ~u.is_admin THEN [u EXCEPT !.status = 403] ELSE u

\* PUT /admin/users/{user_id}: only the supplied fields change
update_user_admin(tok, user_id, p_active, p_limit, p_admin) ==
    /\ LET a == require_admin(tok) IN
       IF a.status # 200
         THEN /\ last' = Resp("admin_update_user", tok, 0, a.status, 0)
              /\ UNCHANGED store
         ELSE /\ Len(activity_log) < MaxActivity
              /\ users' = [i \in DOMAIN users |->
                             IF i = user_id
                               THEN [users[i] EXCEPT
                                       !.is_active = Patched(p_active, @),
                                       !.monthly_limit = Patched(p_limit, @),
                                       !.is_admin = Patched(p_admin, @)]
                               ELSE users[i]]
              /\ activity_log' = log_activity(a.id, "admin_update_user", 0)
              /\ last' = Resp("admin_update_user", tok, user_id, 200, 0)
              /\ UNCHANGED <<profiles, sessions, topics, usage_log>>
    /\ UNCHANGED <<now, apiKey, posts, req, sched, extCalls>>

\* GET /admin/users: one entry per users row
get_all_users(tok) ==
    /\ LET a == require_admin(tok) IN
       last' = IF a.status # 200 THEN Resp("admin_users", tok, 0, a.status, 0)
               ELSE Resp("admin_users", tok, a.id, 200, Len(users))
    /\ UNCHANGED <<now, apiKey, posts, store, req, sched, extCalls>>

ActivityLimits == {1, 100}

\* GET /admin/activity?limit=: the activity rows joined to their users, at
\* most limit of them
get_activity_log(tok, limit) ==
    /\ LET a == require_admin(tok)
           joined == Cardinality({i \in DOMAIN activity_log :
                                     activity_log[i].user_id \in DOMAIN users})
       IN  last' = IF a.status # 200 THEN Resp("admin_activity", tok, 0, a.status, 0)
                   ELSE Resp("admin_activity", tok, a.id, 200,
                             IF joined < limit THEN joined ELSE limit)
    /\ UNCHANGED <<now, apiKey, posts, store, req, sched, extCalls>>

\* GET /admin/usage-stats: api_calls_this_month, counted from
\* now.replace(day=1, hour=0, minute=0, second=0)
get_usage_stats(tok) ==
    /\ LET a == require_admin(tok)
           api_calls == Cardinality({i \in DOMAIN usage_log :
                                        usage_log[i].timestamp >= MonthStart(now) + Micro(now)})
       IN  last' = IF a.status # 200 THEN Resp("admin_usage_stats", tok, 0, a.status, 0)
                   ELSE Resp("admin_usage_stats", tok, a.id, 200, api_calls)
    /\ UNCHANGED <<now, apiKey, posts, store, req, sched, extCalls>>

\* ------------------------------------------------------------------ the clock
\* The instants the clock visits in the session-lifecycle specification: the
\* first ticks, and the ticks around the expiry of a session issued at tick 0.
AuthClock == {0, 1, Days(SessionDays), Days(SessionDays) + 1, Days(SessionDays) + 2}

TickAuth ==
    /\ \E t \in AuthClock : t > now /\ now' = t
    /\ UNCHANGED <<apiKey, posts, store, req, sched, extCalls, last>>

\* ------------------------------------------------------------------ quota
\* SELECT COUNT(*) FROM usage_log WHERE user_id = ? AND timestamp >= ?
UsageCount(user_id, since) ==
    Cardinality({i \in DOMAIN usage_log :
                    usage_log[i].user_id = user_id /\ usage_log[i].timestamp >= since})

\* check_user_limit counting every usage row of the user, whatever its month
check_user_limit_all_time(user_id, monthly_limit) ==
    IF UsageCount(user_id, 0) >= monthly_limit THEN 429 ELSE 200

\* check_user_limit rejecting only above the ceiling (> for >=)
check_user_limit_above_only(user_id, monthly_limit) ==
    IF UsageCount(user_id, MonthStart(now)) > monthly_limit THEN 429 ELSE 200

\* check_user_limit: 429 when this month's usage has reached the ceiling
check_user_limit(user_id, monthly_limit) ==
    IF UsageCount(user_id, MonthStart(now)) >= monthly_limit THEN 429 ELSE 200

\* log_usage: one row appended to usage_log, cost in hundredths
log_usage(user_id, action_type, cost) ==
    Append(usage_log, [user_id |-> user_id, action_type |-> action_type,
                       timestamp |-> now, cost_estimate |-> cost])

\* ------------------------------------------------------------------ the reply
\* The text of an LLM reply is a sequence of tokens: "[" "]" "," and, each one
\* token, a JSON object with every field ("o", relevance_score 8), the empty
\* JSON object ("e"), a JSON string ("s"), and prose that is no JSON ("x").
Replies ==
    { <<"x">>, <<"]", "[">>, <<"[", "x", "]">>, <<"[", "o", ",", "]">>,
      <<"[", "]">>, <<"x", "[", "o", "]", "x">>, <<"[", "o", ",", "e", "]">>,
      <<"[", "s", "]">>, <<"[", "o", ",", "s", "]">>, <<"[", "o", "]", "[", "e", "]">> }

\* str.find('[') and str.rfind(']'), 1-based, 0 when absent
Find(text, ch) ==
    LET at == {i \in DOMAIN text : text[i] = ch}
    IN  IF at = {} THEN 0 ELSE CHOOSE i \in at : \A j \in at : i <= j

RFind(text, ch) ==
    LET at == {i \in DOMAIN text : text[i] = ch}
    IN  IF at = {} THEN 0 ELSE CHOOSE i \in at : \A j \in at : i >= j

\* json.loads on a token sequence: a recursive-descent parse of one JSON value.
\* ParseValue(t, i) parses a value at position i; ParseItems(t, i) parses
\* "value (, value)* ]".  items are the kinds of the elements of the array.
RECURSIVE ParseValue(_, _), ParseItems(_, _)
ParseValue(t, i) ==
    IF i > Len(t) THEN [ok |-> FALSE, next |-> i, items |-> <<>>]
    ELSE IF t[i] \in {"o", "e", "s"} THEN [ok |-> TRUE, next |-> i + 1, items |-> <<>>]
    ELSE IF t[i] = "["
      THEN IF i + 1 <= Len(t) /\ t[i + 1] = "]"
             THEN [ok |-> TRUE, next |-> i + 2, items |-> <<>>]
             ELSE ParseItems(t, i + 1)
    ELSE [ok |-> FALSE, next |-> i, items |-> <<>>]

ParseItems(t, i) ==
    LET v == ParseValue(t, i)
        kind == IF t[i] = "[" THEN "a" ELSE t[i]
    IN  IF ~v.ok \/ v.next > Len(t) THEN [ok |-> FALSE, next |-> i, items |-> <<>>]
        ELSE IF t[v.next] = "]" THEN [ok |-> TRUE, next |-> v.next + 1, items |-> <<kind>>]
        ELSE IF t[v.next] = ","
          THEN LET rest == ParseItems(t, v.next + 1)
               IN  [ok |-> rest.ok, next |-> rest.next, items |-> <<kind>> \o rest.items]
        ELSE [ok |-> FALSE, next |-> i, items |-> <<>>]

\* json.loads(json_str): ok with the elements' kinds, or JSONDecodeError
JsonLoads(t) ==
    LET v == ParseValue(t, 1)
    IN  IF v.ok /\ v.next = Len(t) + 1 THEN [ok |-> TRUE, items |-> v.items]
        ELSE [ok |-> FALSE, items |-> <<>>]

\* item.get('title', ''), item.get('relevance_score', 5) of a JSON object
ItemTitle(kind) == IF kind = "o" THEN "T" ELSE ""
ItemScore(kind) == IF kind = "o" THEN 8 ELSE DefaultRelevance

\* item.get('sources', []): the object with every field has the sources the
\* prompt asks for, a list of objects {"url", "title", "date"}
ItemSources(kind) == IF kind = "o" THEN <<"object">> ELSE <<>>

\* one row of table topics
TopicRow(user_id, kind) ==
    [user_id |-> user_id, title |-> ItemTitle(kind), relevance_score |-> ItemScore(kind),
     sources |-> ItemSources(kind), created_at |-> now, status |-> "new"]

\* The "Parse JSON" block of manual_monitoring and the body of
\* _parse_monitoring_response: the slice from the first '[' to the last ']' is
\* given to json.loads; a JSONDecodeError is swallowed (no items); item.get on
\* an element that is no JSON object raises AttributeError, which is not.
\* error = "none" | "AttributeError"; kinds = the objects read before it.
RECURSIVE ObjectsBefore(_)
ObjectsBefore(items) ==
    IF items = <<>> \/ Head(items) \notin {"o", "e"} THEN <<>>
    ELSE <<Head(items)>> \o ObjectsBefore(Tail(items))

\* the parse with its JSONDecodeError not swallowed
ParseReply_decode_error_raised(text) ==
    LET start == Find(text, "[")
        end == RFind(text, "]")
    IN  IF start # 0 /\ end >= start
          THEN LET data == JsonLoads(SubSeq(text, start, end))
               IN  IF ~data.ok THEN [error |-> "JSONDecodeError", kinds |-> <<>>]
                   ELSE IF \A k \in DOMAIN data.items : data.items[k] \in {"o", "e"}
                     THEN [error |-> "none", kinds |-> data.items]
                   ELSE [error |-> "AttributeError", kinds |-> ObjectsBefore(data.items)]
          ELSE [error |-> "none", kinds |-> <<>>]

ParseReply(text) ==
    LET start == Find(text, "[")
        end == RFind(text, "]")
    IN  IF start # 0 /\ end >= start
          THEN LET data == JsonLoads(SubSeq(text, start, end))
               IN  IF ~data.ok THEN [error |-> "none", kinds |-> <<>>]
                   ELSE IF \A k \in DOMAIN data.items : data.items[k] \in {"o", "e"}
                     THEN [error |-> "none", kinds |-> data.items]
                   ELSE [error |-> "AttributeError", kinds |-> ObjectsBefore(data.items)]
          ELSE [error |-> "none", kinds |-> <<>>]

\* the parse of every reply of the model, computed once
Parsed == [text \in Replies |-> ParseReply(text)]

\* ------------------------------------------------------------------ POST /monitor
\* manual_monitoring with the external call made before the quota check
manual_monitoring_call_first(r, tok) ==
    /\ req[r].pc = "idle"
    /\ extCalls < MaxCalls
    /\ LET u == get_user_from_token(tok) IN
       /\ u.status = 200
       /\ extCalls' = extCalls + 1
       /\ IF check_user_limit(u.id, u.monthly_limit) = 429
            THEN /\ last' = Resp("monitor", 0, u.id, 429, 0)
                 /\ req' = req
            ELSE /\ req' = [req EXCEPT ![r] = [Idle EXCEPT !.op = "monitor", !.pc = "await",
                                                 !.user = u.id, !.limit = u.monthly_limit,
                                                  !.at = now]]
                 /\ last' = last
    /\ UNCHANGED <<now, apiKey, posts, store, sched>>

\* manual_monitoring up to client.messages.create: authentication, the quota
\* check, the API key, the profile, then the external call is made.
manual_monitoring(r, tok) ==
    /\ req[r].pc = "idle"
    /\ LET u == get_user_from_token(tok)
           refused == IF u.status # 200 THEN u.status
                      ELSE IF check_user_limit(u.id, u.monthly_limit) = 429 THEN 429
                      ELSE IF ~apiKey THEN 503
                      ELSE IF u.id \notin DOMAIN profiles THEN 500
                      ELSE 0
       IN  IF refused # 0
             THEN /\ last' = Resp("monitor", 0, u.id, refused, 0)
                  /\ UNCHANGED <<req, extCalls>>
             ELSE /\ extCalls < MaxCalls
                  /\ req' = [req EXCEPT ![r] = [Idle EXCEPT !.op = "monitor", !.pc = "await",
                                                  !.user = u.id, !.limit = u.monthly_limit,
                                                  !.at = now]]
                  /\ extCalls' = extCalls + 1
                  /\ last' = last
    /\ UNCHANGED <<now, apiKey, posts, store, sched>>

\* manual_monitoring_reply committing each INSERT as it is executed: the rows
\* read before an AttributeError stay in the table
manual_monitoring_reply_partial_commit(r, reply) ==
    /\ req[r].pc = "await"
    /\ req[r].op = "monitor"
    /\ LET p == Parsed[reply]
           uid == req[r].user
           found == Len(p.kinds)
       IN  /\ Len(topics) + found <= MaxTopics
           /\ topics' = topics \o [k \in 1..found |-> TopicRow(uid, p.kinds[k])]
           /\ IF p.error # "none"
                THEN /\ last' = [Resp("monitor", 0, uid, 500, 0) EXCEPT !.reply = reply]
                     /\ UNCHANGED <<users, profiles, sessions, usage_log, activity_log>>
                ELSE /\ usage_log' = log_usage(uid, "manual_monitoring", 3)
                     /\ activity_log' = log_activity(uid, "manual_monitoring", found)
                     /\ last' = [Resp("monitor", 0, uid, 200, found) EXCEPT !.reply = reply]
                     /\ UNCHANGED <<users, profiles, sessions>>
    /\ req' = [req EXCEPT ![r] = Idle]
    /\ UNCHANGED <<now, apiKey, posts, sched, extCalls>>

\* manual_monitoring from the reply on: parse, INSERT the topics and commit,
\* log_usage, log_activity.  An exception (AttributeError) is answered 500; the
\* rows inserted before it are never committed.
manual_monitoring_reply(r, reply) ==
    /\ req[r].pc = "await"
    /\ req[r].op = "monitor"
    /\ LET p == Parsed[reply]
           uid == req[r].user
           found == Len(p.kinds)
       IN  IF p.error # "none"
             THEN /\ last' = [Resp("monitor", 0, uid, 500, 0) EXCEPT !.reply = reply]
                  /\ UNCHANGED store
             ELSE /\ Len(topics) + found <= MaxTopics
                  /\ topics' = topics \o [k \in 1..found |-> TopicRow(uid, p.kinds[k])]
                  /\ usage_log' = log_usage(uid, "manual_monitoring", 3)
                  /\ activity_log' = log_activity(uid, "manual_monitoring", found)
                  /\ last' = [Resp("monitor", 0, uid, 200, found) EXCEPT !.reply = reply]
                  /\ UNCHANGED <<users, profiles, sessions>>
    /\ req' = [req EXCEPT ![r] = Idle]
    /\ UNCHANGED <<now, apiKey, posts, sched, extCalls>>

\* client.messages.create raises (network failure, provider error): the
\* handler's except clause answers 500
ExternalCallRaises(r) ==
    /\ req[r].pc = "await"
    /\ last' = Resp(req[r].op, 0, req[r].user, 500, 0)
    /\ req' = [req EXCEPT ![r] = Idle]
    /\ UNCHANGED <<now, apiKey, posts, store, sched, extCalls>>

\* ------------------------------------------------------------------ POST /brainstorm
\* brainstorm up to client.messages.create.  The HTTPException(404) for a topic
\* that is not the caller's is raised inside the try block, whose
\* "except Exception" clause answers 500.
brainstorm(r, tok, topic_id) ==
    /\ req[r].pc = "idle"
    /\ LET u == get_user_from_token(tok)
           refused == IF u.status # 200 THEN u.status
                      ELSE IF check_user_limit(u.id, u.monthly_limit) = 429 THEN 429
                      ELSE IF ~apiKey THEN 503
                      ELSE IF topic_id \notin DOMAIN topics THEN 500
                      ELSE IF topics[topic_id].user_id # u.id THEN 500
                      ELSE IF u.id \notin DOMAIN profiles THEN 500
                      ELSE 0
       IN  IF refused # 0
             THEN /\ last' = Resp("brainstorm", 0, u.id, refused, 0)
                  /\ UNCHANGED <<req, extCalls>>
             ELSE /\ extCalls < MaxCalls
                  /\ req' = [req EXCEPT ![r] = [Idle EXCEPT !.op = "brainstorm", !.pc = "await",
                                                  !.user = u.id, !.limit = u.monthly_limit,
                                                  !.topic = topic_id, !.at = now]]
                  /\ extCalls' = extCalls + 1
                  /\ last' = last
    /\ UNCHANGED <<now, apiKey, posts, store, sched>>

\* brainstorm from the reply on: message.content[0].text (IndexError when the
\* reply has no content block), log_usage at 0.02, log_activity.
brainstorm_reply(r, has_text) ==
    /\ req[r].pc = "await"
    /\ req[r].op = "brainstorm"
    /\ IF ~has_text
         THEN /\ last' = Resp("brainstorm", 0, req[r].user, 500, 0)
              /\ UNCHANGED store
         ELSE /\ usage_log' = log_usage(req[r].user, "brainstorm", 2)
              /\ activity_log' = log_activity(req[r].user, "brainstorm", req[r].topic)
              /\ last' = Resp("brainstorm", 0, req[r].user, 200, 0)
              /\ UNCHANGED <<users, profiles, sessions, topics>>
    /\ req' = [req EXCEPT ![r] = Idle]
    /\ UNCHANGED <<now, apiKey, posts, sched, extCalls>>

\* ------------------------------------------------------------------ topics
\* valid_statuses of update_topic_status
valid_statuses == {"new", "reviewed", "drafted", "published", "archived"}

StatusInputs == {"new", "archived", "deleted"}

\* update_topic_status with the owner condition of the UPDATE dropped
update_topic_status_any_owner(tok, topic_id, status) ==
    /\ LET u == get_user_from_token(tok) IN
       IF u.status # 200
         THEN /\ last' = Resp("update_topic_status", 0, 0, u.status, 0)
              /\ topics' = topics
       ELSE IF status \notin valid_statuses
         THEN /\ last' = Resp("update_topic_status", 0, u.id, 400, 0)
              /\ topics' = topics
       ELSE /\ topics' = [i \in DOMAIN topics |->
                            IF i = topic_id THEN [topics[i] EXCEPT !.status = status]
                            ELSE topics[i]]
            /\ last' = Resp("update_topic_status", 0, u.id, 200, 0)
    /\ UNCHANGED <<now, apiKey, posts, users, profiles, sessions, usage_log, activity_log,
                   req, sched, extCalls>>

\* PUT /topics/{topic_id}/status: 400 for a status outside valid_statuses, else
\* UPDATE topics SET status = ? WHERE id = ? AND user_id = ? and success,
\* whatever the number of rows the UPDATE matched
update_topic_status(tok, topic_id, status) ==
    /\ LET u == get_user_from_token(tok) IN
       IF u.status # 200
         THEN /\ last' = Resp("update_topic_status", 0, 0, u.status, 0)
              /\ topics' = topics
       ELSE IF status \notin valid_statuses
         THEN /\ last' = Resp("update_topic_status", 0, u.id, 400, 0)
              /\ topics' = topics
       ELSE /\ topics' = [i \in DOMAIN topics |->
                            IF i = topic_id /\ topics[i].user_id = u.id
                              THEN [topics[i] EXCEPT !.status = status]
                              ELSE topics[i]]
            /\ last' = Resp("update_topic_status", 0, u.id, 200, 0)
    /\ UNCHANGED <<now, apiKey, posts, users, profiles, sessions, usage_log, activity_log,
                   req, sched, extCalls>>

\* ORDER BY relevance_score DESC, created_at DESC: row i may come before row j
InDigestOrder(i, j) ==
    \/ topics[i].relevance_score > topics[j].relevance_score
    \/ /\ topics[i].relevance_score = topics[j].relevance_score
       /\ topics[i].created_at >= topics[j].created_at

\* the orders in which the SELECT may return the rows of sel (rows equal in
\* both keys come in either order)
DigestOrders(sel) ==
    {q \in [1..Cardinality(sel) -> sel] :
        /\ \A a, b \in DOMAIN q : a # b => q[a] # q[b]
        /\ \A a, b \in DOMAIN q : a < b => InDigestOrder(q[a], q[b])}

\* TopicResponse(sources=json.loads(row[5]), ...) with sources: List[str]: an
\* element that is no string fails the validation
TopicResponseRaises(i) == \E k \in DOMAIN topics[i].sources : topics[i].sources[k] # "string"

\* get_digest with the owner condition of the SELECT dropped
get_digest_any_owner(tok, days) ==
    /\ LET u == get_user_from_token(tok)
           cutoff_date == now - Days(days)
           sel == {i \in DOMAIN topics : /\ topics[i].created_at > cutoff_date
                                         /\ topics[i].status = "new"}
       IN  IF u.status # 200
             THEN last' = Resp("get_digest", 0, 0, u.status, 0)
           ELSE IF \E i \in sel : TopicResponseRaises(i)
             THEN last' = Resp("get_digest", 0, u.id, 500, 0)
           ELSE \E q \in DigestOrders(sel) :
                   last' = [Resp("get_digest", 0, u.id, 200, 0) EXCEPT !.rows = q]
    /\ UNCHANGED <<now, apiKey, posts, store, req, sched, extCalls>>

\* GET /digest?days=: the caller's topics with status 'new' created after
\* now - days, ordered; each row is turned into a TopicResponse, and a
\* ValidationError there leaves the handler as a 500.
get_digest(tok, days) ==
    /\ LET u == get_user_from_token(tok)
           cutoff_date == now - Days(days)
           sel == {i \in DOMAIN topics : /\ topics[i].user_id = u.id
                                         /\ topics[i].created_at > cutoff_date
                                         /\ topics[i].status = "new"}
       IN  IF u.status # 200
             THEN last' = Resp("get_digest", 0, 0, u.status, 0)
           ELSE IF \E i \in sel : TopicResponseRaises(i)
             THEN last' = Resp("get_digest", 0, u.id, 500, 0)
           ELSE \E q \in DigestOrders(sel) :
                   last' = [Resp("get_digest", 0, u.id, 200, 0) EXCEPT !.rows = q]
    /\ UNCHANGED <<now, apiKey, posts, store, req, sched, extCalls>>

\* The instants the clock visits in the quota specification: the first tick
\* of February, its last tick, and the first tick of March.
QuotaClock == {0, FebDays - 1, FebDays}

TickQuota ==
    /\ \E t \in QuotaClock : t > now /\ now' = t
    /\ UNCHANGED <<apiKey, posts, store, req, sched, extCalls, last>>

\* ------------------------------------------------------------------ posts
\* ContentAssistant.save_post(topic_id, content, status) of the single-user
\* assistant, on its own database file.
PostTopics == {1, 2}
PostStatuses == {"draft", "final"}

\* SELECT MAX(version) FROM posts WHERE topic_id = ?, then (result[0] or 0)
MaxVersion(topic_id) ==
    LET vs == {posts[i].version : i \in {j \in DOMAIN posts : posts[j].topic_id = topic_id}}
    IN  IF vs = {} THEN 0 ELSE CHOOSE v \in vs : \A w \in vs : w <= v

\* save_post reading the maximum version of the whole table
save_post_select_any_topic(r, topic_id, status) ==
    /\ req[r].pc = "idle"
    /\ Len(posts) < MaxPosts
    /\ LET vs == {posts[i].version : i \in DOMAIN posts}
           top == IF vs = {} THEN 0 ELSE CHOOSE v \in vs : \A w \in vs : w <= v
       IN  req' = [req EXCEPT ![r] = [Idle EXCEPT !.op = "save_post", !.pc = "selected",
                                        !.topic = topic_id, !.status = status,
                                        !.version = top + 1]]
    /\ UNCHANGED <<now, apiKey, posts, store, sched, extCalls, last>>

\* save_post, first statement: the SELECT and version = (result[0] or 0) + 1.
\* The SELECT opens no transaction.
save_post_select(r, topic_id, status) ==
    /\ req[r].pc = "idle"
    /\ Len(posts) < MaxPosts
    /\ req' = [req EXCEPT ![r] = [Idle EXCEPT !.op = "save_post", !.pc = "selected",
                                   !.topic = topic_id, !.status = status,
                                   !.version = MaxVersion(topic_id) + 1]]
    /\ UNCHANGED <<now, apiKey, posts, store, sched, extCalls, last>>

\* save_post computing the version inside the INSERT, from the table as it is
\* then
save_post_insert_atomic(r) ==
    /\ req[r].pc = "selected"
    /\ req[r].op = "save_post"
    /\ Len(posts) < MaxPosts
    /\ posts' = Append(posts, [topic_id |-> req[r].topic,
                               version |-> MaxVersion(req[r].topic) + 1,
                               created_at |-> now, status |-> req[r].status])
    /\ last' = [Resp("save_post", 0, 0, 200, 0) EXCEPT !.rows = <<Len(posts) + 1>>]
    /\ req' = [req EXCEPT ![r] = Idle]
    /\ UNCHANGED <<now, apiKey, store, sched, extCalls>>

\* save_post, the rest: INSERT INTO posts with the version computed, commit,
\* return c.lastrowid
save_post_insert(r) ==
    /\ req[r].pc = "selected"
    /\ req[r].op = "save_post"
    /\ Len(posts) < MaxPosts
    /\ posts' = Append(posts, [topic_id |-> req[r].topic, version |-> req[r].version,
                               created_at |-> now, status |-> req[r].status])
    /\ last' = [Resp("save_post", 0, 0, 200, 0) EXCEPT !.rows = <<Len(posts) + 1>>]
    /\ req' = [req EXCEPT ![r] = Idle]
    /\ UNCHANGED <<now, apiKey, store, sched, extCalls>>

\* ------------------------------------------------------------------ scheduler
\* today.replace(day=1, hour=0, minute=0, second=0): the microsecond is kept
SchedMonthStart(today) == MonthStart(today) + Micro(today)

\* the cadence test with the first-half-of-month condition of biweekly dropped
should_run_no_half_month(frequency, today) ==
    \/ frequency = "daily"
    \/ frequency = "weekly" /\ Weekday(today) = Monday
    \/ frequency = "biweekly" /\ Weekday(today) = Monday

\* should_run of run_all_user_monitoring
should_run(frequency, today) ==
    \/ frequency = "daily"
    \/ frequency = "weekly" /\ Weekday(today) = Monday
    \/ frequency = "biweekly" /\ Weekday(today) = Monday /\ DayOfMonth(today) <= BiweeklyLastDay

\* SELECT ... FROM users u JOIN user_profiles up ... WHERE u.is_active = 1
RECURSIVE ActiveRows(_)
ActiveRows(n) ==
    IF n = 0 THEN <<>>
    ELSE LET before == ActiveRows(n - 1)
         IN  IF users[n].is_active /\ n \in DOMAIN profiles
               THEN Append(before, [id |-> n, monthly_limit |-> users[n].monthly_limit,
                                    frequency |-> profiles[n].monitoring_frequency])
               ELSE before

\* The tables of the database a sqlite3.connect(":memory:") opens: every
\* connection to ":memory:" is a new, empty database, so the tables that
\* init_database created on its own connection are gone when _save_topic and
\* _log_monitoring_run connect.
MemoryDbTables == {}

\* ContentAssistant.monitor_industry_news on db_path ":memory:", from the reply
\* on: _parse_monitoring_response, _save_topic per suggestion,
\* _log_monitoring_run.  raised = "none" or the exception that leaves it.
monitor_industry_news(reply) ==
    LET p == Parsed[reply] IN
    IF p.error # "none" THEN [raised |-> p.error, suggestions |-> <<>>]
    ELSE IF p.kinds # <<>> /\ "topics" \notin MemoryDbTables
      THEN [raised |-> "OperationalError", suggestions |-> <<>>]
    ELSE IF "monitoring_log" \notin MemoryDbTables
      THEN [raised |-> "OperationalError", suggestions |-> <<>>]
    ELSE [raised |-> "none", suggestions |-> p.kinds]

\* run_all_user_monitoring up to the loop: the job fires (only a process with
\* an API key starts it), takes today and fetches the active users' rows.
SchedFire ==
    /\ sched.pc = "idle"
    /\ apiKey
    /\ sched' = [SchedIdle EXCEPT !.pc = "loop", !.today = now,
                                  !.rows = ActiveRows(Len(users)), !.idx = 1]
    /\ UNCHANGED <<now, apiKey, posts, store, req, extCalls, last>>

\* One pass of the loop up to the external call: the usage count, the cadence
\* test, then monitor_industry_news calls the LLM.
SchedExamine ==
    /\ sched.pc = "loop"
    /\ sched.idx <= Len(sched.rows)
    /\ LET row == sched.rows[sched.idx]
           usage_count == UsageCount(row.id, SchedMonthStart(sched.today))
           seen == Append(sched.examined, row.id)
       IN  IF usage_count >= row.monthly_limit \/ ~should_run(row.frequency, sched.today)
             THEN /\ sched' = [sched EXCEPT !.idx = @ + 1, !.examined = seen]
                  /\ extCalls' = extCalls
             ELSE /\ extCalls < MaxCalls
                  /\ sched' = [sched EXCEPT !.pc = "call", !.examined = seen,
                                            !.selected = Append(@, row.id)]
                  /\ extCalls' = extCalls + 1
    /\ UNCHANGED <<now, apiKey, posts, store, req, last>>

\* a failure of one user that ends the firing
SchedAfterFailure_abort(uid) ==
    [sched EXCEPT !.pc = "idle", !.failed = Append(@, uid)]

\* the except clause of the loop: the error is printed, the loop goes on
SchedAfterFailure(uid) ==
    [sched EXCEPT !.pc = "loop", !.idx = @ + 1, !.failed = Append(@, uid)]

\* The rest of the pass: monitor_industry_news returns or raises; on return the
\* topics and one usage row are inserted and committed.
SchedReply(reply) ==
    /\ sched.pc = "call"
    /\ LET uid == sched.rows[sched.idx].id
           m == monitor_industry_news(reply)
           found == Len(m.suggestions)
       IN  IF m.raised # "none"
             THEN /\ sched' = SchedAfterFailure(uid)
                  /\ UNCHANGED store
             ELSE /\ Len(topics) + found <= MaxTopics
                  /\ topics' = topics \o [k \in 1..found |-> TopicRow(uid, m.suggestions[k])]
                  /\ usage_log' = log_usage(uid, "scheduled_monitoring", 3)
                  /\ sched' = [sched EXCEPT !.pc = "loop", !.idx = @ + 1]
                  /\ UNCHANGED <<users, profiles, sessions, activity_log>>
    /\ UNCHANGED <<now, apiKey, posts, req, extCalls, last>>

\* client.messages.create raises inside monitor_industry_news
SchedCallRaises ==
    /\ sched.pc = "call"
    /\ sched' = SchedAfterFailure(sched.rows[sched.idx].id)
    /\ UNCHANGED <<now, apiKey, posts, store, req, extCalls, last>>

\* after the last row: conn.close()
SchedClose ==
    /\ sched.pc = "loop"
    /\ sched.idx > Len(sched.rows)
    /\ sched' = [sched EXCEPT !.pc = "idle"]
    /\ UNCHANGED <<now, apiKey, posts, store, req, extCalls, last>>

\* The instants the clock visits in the scheduler specification: Monday 1st,
\* Tuesday 2nd, Monday 8th (one microsecond tick past midnight) and Monday
\* 15th of February.
SchedClock == {0, Days(1), Days(7) + 1, Days(14)}

TickSched ==
    /\ \E t \in SchedClock : t > now /\ now' = t
    /\ UNCHANGED <<apiKey, posts, store, req, sched, extCalls, last>>

\* The store after two signups at tick 0, a@x.com first (auto-promoted admin,
\* token 1) and b@x.com second (token 2): the state every later request of the
\* session-lifecycle, quota and scheduler specifications starts from.
SeededUser(email, admin) ==
    [email |-> email, password_hash |-> hash_password("pw"), is_active |-> TRUE,
     is_admin |-> admin, monthly_limit |-> DefaultMonthlyLimit]

InitSeeded ==
    /\ now = 0
    /\ apiKey = TRUE
    /\ users = <<SeededUser("a@x.com", TRUE), SeededUser("b@x.com", FALSE)>>
    /\ profiles = <<default_profile, default_profile>>
    /\ sessions = <<[user_id |-> 1, expires_at |-> Days(SessionDays)],
                    [user_id |-> 2, expires_at |-> Days(SessionDays)]>>
    /\ topics = <<>>
    /\ usage_log = <<>>
    /\ activity_log = <<[user_id |-> 1, action |-> "signup", details |-> 0],
                        [user_id |-> 2, action |-> "signup", details |-> 0]>>
    /\ req = [r \in Slots |-> Idle]
    /\ sched = SchedIdle
    /\ extCalls = 0
    /\ posts = <<>>
    /\ last = Resp("none", 0, 0, 0, 0)

\* signups (overlapping or not), logins and authenticated reads on an empty store
NextSignup ==
    \/ \E r \in Slots, e \in Emails : SignupCount(r, e)
    \/ \E r \in Slots : SignupInsert(r)
    \/ \E e \in Emails, pw \in Passwords : Login(e, pw)
    \/ \E tok \in TokenInputs : GetProfile(tok)

SpecSignup == Init /\ [][NextSignup]_vars

\* the session lifecycle: logins, authenticated reads, admin updates, the clock
NextAuth ==
    \/ \E e \in Emails, pw \in Passwords : Login(e, pw)
    \/ \E tok \in TokenInputs : GetProfile(tok)
    \/ \E tok \in TokenInputs, id \in 1..MaxUsers,
          pa \in Opt(BOOLEAN), pd \in Opt(BOOLEAN) :
            update_user_admin(tok, id, pa, {}, pd)
    \/ TickAuth

SpecAuth == InitSeeded /\ [][NextAuth]_vars

\* The seeded store after the admin has set the monthly ceiling of b@x.com
\* (one admin_update_user activity row); a@x.com keeps the default ceiling.
InitQuota ==
    /\ now = 0
    /\ apiKey \in BOOLEAN
    /\ \E lb \in Limits :
          users = <<SeededUser("a@x.com", TRUE),
                    [SeededUser("b@x.com", FALSE) EXCEPT !.monthly_limit = lb]>>
    /\ profiles = <<default_profile, default_profile>>
    /\ sessions = <<[user_id |-> 1, expires_at |-> Days(SessionDays)],
                    [user_id |-> 2, expires_at |-> Days(SessionDays)]>>
    /\ topics = <<>>
    /\ usage_log = <<>>
    /\ activity_log = <<[user_id |-> 1, action |-> "signup", details |-> 0],
                        [user_id |-> 2, action |-> "signup", details |-> 0],
                        [user_id |-> 1, action |-> "admin_update_user", details |-> 0]>>
    /\ req = [r \in Slots |-> Idle]
    /\ sched = SchedIdle
    /\ extCalls = 0
    /\ posts = <<>>
    /\ last = Resp("none", 0, 0, 0, 0)

\* The costed requests, manual monitoring and brainstorm, served by the one
\* worker process that uvicorn.run(app) starts (a handler runs to its end
\* before the next request is taken), and the clock.
OneWorker == {1}

NextQuota ==
    \/ \E r \in OneWorker, tok \in TokenInputs : manual_monitoring(r, tok)
    \/ \E r \in OneWorker, reply \in Replies : manual_monitoring_reply(r, reply)
    \/ \E r \in OneWorker, tok \in TokenInputs, t \in 1..MaxTopics : brainstorm(r, tok, t)
    \/ \E r \in OneWorker, has_text \in BOOLEAN : brainstorm_reply(r, has_text)
    \/ \E r \in OneWorker : ExternalCallRaises(r)
    \/ TickQuota

SpecQuota == InitQuota /\ [][NextQuota]_vars

\* The seeded store after each user chose a cadence (PUT /profile), the admin
\* set the ceiling of b@x.com, and b@x.com either ran no costed request or one
\* manual monitoring at tick 0 whose reply held no topic.
InitSched ==
    /\ now \in SchedClock
    /\ apiKey = TRUE
    /\ \E lb \in Limits :
          users = <<SeededUser("a@x.com", TRUE),
                    [SeededUser("b@x.com", FALSE) EXCEPT !.monthly_limit = lb]>>
    /\ \E fa \in Frequencies, fb \in Frequencies :
          profiles = <<[default_profile EXCEPT !.monitoring_frequency = fa],
                       [default_profile EXCEPT !.monitoring_frequency = fb]>>
    /\ sessions = <<[user_id |-> 1, expires_at |-> Days(SessionDays)],
                    [user_id |-> 2, expires_at |-> Days(SessionDays)]>>
    /\ topics = <<>>
    /\ \E ran \in BOOLEAN :
          /\ usage_log = IF ran THEN <<[user_id |-> 2, action_type |-> "manual_monitoring",
                                        timestamp |-> 0, cost_estimate |-> 3]>>
                         ELSE <<>>
          /\ activity_log =
               <<[user_id |-> 1, action |-> "signup", details |-> 0],
                 [user_id |-> 2, action |-> "signup", details |-> 0],
                 [user_id |-> 1, action |-> "update_profile", details |-> 0],
                 [user_id |-> 2, action |-> "update_profile", details |-> 0],
                 [user_id |-> 1, action |-> "admin_update_user", details |-> 0]>>
               \o (IF ran THEN <<[user_id |-> 2, action |-> "manual_monitoring",
                                  details |-> 0]>> ELSE <<>>)
    /\ req = [r \in Slots |-> Idle]
    /\ sched = SchedIdle
    /\ extCalls = 0
    /\ posts = <<>>
    /\ last = Resp("none", 0, 0, 0, 0)

\* the daily job and the clock
NextSched ==
    \/ SchedFire
    \/ SchedExamine
    \/ \E reply \in Replies : SchedReply(reply)
    \/ SchedCallRaises
    \/ SchedClose
    \/ TickSched

SpecSched == InitSched /\ [][NextSched]_vars

\* The seeded store at tick 0, a Monday, both users on the default weekly
\* cadence; the admin has set the ceiling of b@x.com.
InitFlows ==
    /\ now = 0
    /\ apiKey = TRUE
    /\ \E lb \in Limits :
          users = <<SeededUser("a@x.com", TRUE),
                    [SeededUser("b@x.com", FALSE) EXCEPT !.monthly_limit = lb]>>
    /\ profiles = <<default_profile, default_profile>>
    /\ sessions = <<[user_id |-> 1, expires_at |-> Days(SessionDays)],
                    [user_id |-> 2, expires_at |-> Days(SessionDays)]>>
    /\ topics = <<>>
    /\ usage_log = <<>>
    /\ activity_log = <<[user_id |-> 1, action |-> "signup", details |-> 0],
                        [user_id |-> 2, action |-> "signup", details |-> 0],
                        [user_id |-> 1, action |-> "admin_update_user", details |-> 0]>>
    /\ req = [r \in Slots |-> Idle]
    /\ sched = SchedIdle
    /\ extCalls = 0
    /\ posts = <<>>
    /\ last = Resp("none", 0, 0, 0, 0)

\* The costed flows together: the manual requests on the one worker and the
\* background job on its own thread.
NextFlows ==
    \/ \E r \in OneWorker, tok \in TokenInputs : manual_monitoring(r, tok)
    \/ \E r \in OneWorker, reply \in Replies : manual_monitoring_reply(r, reply)
    \/ \E r \in OneWorker, tok \in TokenInputs, t \in 1..MaxTopics : brainstorm(r, tok, t)
    \/ \E r \in OneWorker, has_text \in BOOLEAN : brainstorm_reply(r, has_text)
    \/ \E r \in OneWorker : ExternalCallRaises(r)
    \/ SchedFire
    \/ SchedExamine
    \/ \E reply \in Replies : SchedReply(reply)
    \/ SchedCallRaises
    \/ SchedClose

SpecFlows == InitFlows /\ [][NextFlows]_vars

\* The seeded store a week later, after MaxTopics manual monitoring runs, the
\* first made at tick 0 and the others one tick later, each of which found one
\* topic: every run left one Topic, one usage row and one activity row.
MonitoringRuns ==
    {h \in [1..MaxTopics -> [user : {1, 2}, kind : {"o", "e"}, at : {0, 1}]] :
        \A k \in 1..MaxTopics : h[k].at = (IF k = 1 THEN 0 ELSE 1)}

InitTopics ==
    /\ now = Days(7)
    /\ apiKey = TRUE
    /\ users = <<SeededUser("a@x.com", TRUE), SeededUser("b@x.com", FALSE)>>
    /\ profiles = <<default_profile, default_profile>>
    /\ sessions = <<[user_id |-> 1, expires_at |-> Days(SessionDays)],
                    [user_id |-> 2, expires_at |-> Days(SessionDays)]>>
    /\ \E h \in MonitoringRuns :
          /\ topics = [k \in 1..MaxTopics |->
                         [TopicRow(h[k].user, h[k].kind) EXCEPT !.created_at = h[k].at]]
          /\ usage_log = [k \in 1..MaxTopics |->
                            [user_id |-> h[k].user, action_type |-> "manual_monitoring",
                             timestamp |-> h[k].at, cost_estimate |-> 3]]
          /\ activity_log = <<[user_id |-> 1, action |-> "signup", details |-> 0],
                              [user_id |-> 2, action |-> "signup", details |-> 0]>>
                            \o [k \in 1..MaxTopics |->
                                  [user_id |-> h[k].user, action |-> "manual_monitoring",
                                   details |-> 1]]
    /\ req = [r \in Slots |-> Idle]
    /\ sched = SchedIdle
    /\ extCalls = MaxTopics
    /\ posts = <<>>
    /\ last = Resp("none", 0, 0, 0, 0)

\* the window lengths asked of the digest: none, a week, eight days
DigestDays == {0, 7, 8}

\* The instants the clock visits in the topics specification: a week after
\* tick 0, and one tick later.
TopicsClock == {Days(7), Days(7) + 1}

TickTopics ==
    /\ \E t \in TopicsClock : t > now /\ now' = t
    /\ UNCHANGED <<apiKey, posts, store, req, sched, extCalls, last>>

\* reading and triaging the topics
NextTopics ==
    \/ \E tok \in TokenInputs, id \in 1..(MaxTopics + 1), status \in StatusInputs :
          update_topic_status(tok, id, status)
    \/ \E tok \in TokenInputs, days \in DigestDays : get_digest(tok, days)
    \/ TickTopics

SpecTopics == InitTopics /\ [][NextTopics]_vars

\* The seeded store at tick 0, a Monday, after the admin set the ceiling of
\* b@x.com to one request a month and one of the two users made one manual
\* monitoring run whose reply held one topic: one Topic, one usage row, the
\* activity rows, one external call made.
InitTenant ==
    /\ now = 0
    /\ apiKey = TRUE
    /\ users = <<SeededUser("a@x.com", TRUE),
                 [SeededUser("b@x.com", FALSE) EXCEPT !.monthly_limit = 1]>>
    /\ profiles = <<default_profile, default_profile>>
    /\ sessions = <<[user_id |-> 1, expires_at |-> Days(SessionDays)],
                    [user_id |-> 2, expires_at |-> Days(SessionDays)]>>
    /\ \E uid \in {1, 2}, kind \in {"o", "e"} :
          /\ topics = <<TopicRow(uid, kind)>>
          /\ usage_log = <<[user_id |-> uid, action_type |-> "manual_monitoring",
                            timestamp |-> 0, cost_estimate |-> 3]>>
          /\ activity_log = <<[user_id |-> 1, action |-> "signup", details |-> 0],
                              [user_id |-> 2, action |-> "signup", details |-> 0],
                              [user_id |-> 1, action |-> "admin_update_user", details |-> 0],
                              [user_id |-> uid, action |-> "manual_monitoring",
                               details |-> 1]>>
    /\ req = [r \in Slots |-> Idle]
    /\ sched = SchedIdle
    /\ extCalls = 1
    /\ posts = <<>>
    /\ last = Resp("none", 0, 0, 0, 0)

\* Every route and job that reads or writes the topics table: the monitoring
\* runs create topics, the users of both accounts read and triage them.
NextTenant ==
    \/ \E r \in OneWorker, tok \in TokenInputs : manual_monitoring(r, tok)
    \/ \E r \in OneWorker, reply \in Replies : manual_monitoring_reply(r, reply)
    \/ \E r \in OneWorker, tok \in TokenInputs, t \in 1..MaxTopics : brainstorm(r, tok, t)
    \/ \E r \in OneWorker, has_text \in BOOLEAN : brainstorm_reply(r, has_text)
    \/ \E r \in OneWorker : ExternalCallRaises(r)
    \/ \E tok \in TokenInputs, id \in 1..(MaxTopics + 1), status \in StatusInputs :
          update_topic_status(tok, id, status)
    \/ \E tok \in TokenInputs, days \in DigestDays : get_digest(tok, days)
    \/ SchedFire
    \/ SchedExamine
    \/ \E reply \in Replies : SchedReply(reply)
    \/ SchedCallRaises
    \/ SchedClose

SpecTenant == InitTenant /\ [][NextTenant]_vars

\* ContentAssistant(api_key) on a fresh database file: init_database has
\* created the tables, all empty.
InitPosts ==
    /\ now = 0
    /\ apiKey = TRUE
    /\ users = <<>>
    /\ profiles = <<>>
    /\ sessions = <<>>
    /\ topics = <<>>
    /\ usage_log = <<>>
    /\ activity_log = <<>>
    /\ req = [r \in Slots |-> Idle]
    /\ sched = SchedIdle
    /\ extCalls = 0
    /\ posts = <<>>
    /\ last = Resp("none", 0, 0, 0, 0)

\* saves made one after the other by one caller
NextPosts ==
    \/ \E r \in OneWorker, t \in PostTopics, st \in PostStatuses : save_post_select(r, t, st)
    \/ \E r \in OneWorker : save_post_insert(r)

SpecPosts == InitPosts /\ [][NextPosts]_vars

\* saves made by callers that overlap in time (threads or processes sharing
\* the database file)
NextPostsRace ==
    \/ \E r \in Slots, t \in PostTopics, st \in PostStatuses : save_post_select(r, t, st)
    \/ \E r \in Slots : save_post_insert(r)

SpecPostsRace == InitPosts /\ [][NextPostsRace]_vars

\* profile updates and reads on the seeded store
NextProfile ==
    \/ \E tok \in TokenInputs, settings \in SettingsInputs : update_profile(tok, settings)
    \/ \E tok \in TokenInputs : GetProfile(tok)

SpecProfile == InitSeeded /\ [][NextProfile]_vars

\* signups one at a time, logins, authenticated reads and the clock, from the
\* empty store
NextSessions ==
    \/ \E r \in OneWorker, e \in Emails : SignupCount(r, e)
    \/ \E r \in OneWorker : SignupInsert(r)
    \/ \E e \in Emails, pw \in Passwords : Login(e, pw)
    \/ \E tok \in TokenInputs : GetProfile(tok)
    \/ TickAuth

SpecSessions == Init /\ [][NextSessions]_vars

\* the admin routes and the clock on the seeded store
NextAdmin ==
    \/ \E tok \in TokenInputs, id \in 1..MaxUsers, pl \in Opt({1}), pd \in Opt(BOOLEAN) :
          update_user_admin(tok, id, {}, pl, pd)
    \/ \E tok \in TokenInputs : get_all_users(tok)
    \/ \E tok \in TokenInputs, limit \in ActivityLimits : get_activity_log(tok, limit)
    \/ \E tok \in TokenInputs : get_usage_stats(tok)
    \/ TickAuth

SpecAdmin == InitSeeded /\ [][NextAdmin]_vars

\* a worker process that was not started
Off == [Idle EXCEPT !.pc = "off"]

\* The store of InitQuota served by k worker processes (uvicorn --workers k),
\* 1 <= k <= MaxInFlight: every worker takes one request at a time, and requests
\* on different workers overlap.
InitRace ==
    /\ now = 0
    /\ apiKey = TRUE
    /\ \E lb \in Limits :
          users = <<SeededUser("a@x.com", TRUE),
                    [SeededUser("b@x.com", FALSE) EXCEPT !.monthly_limit = lb]>>
    /\ profiles = <<default_profile, default_profile>>
    /\ sessions = <<[user_id |-> 1, expires_at |-> Days(SessionDays)],
                    [user_id |-> 2, expires_at |-> Days(SessionDays)]>>
    /\ topics = <<>>
    /\ usage_log = <<>>
    /\ activity_log = <<[user_id |-> 1, action |-> "signup", details |-> 0],
                        [user_id |-> 2, action |-> "signup", details |-> 0],
                        [user_id |-> 1, action |-> "admin_update_user", details |-> 0]>>
    /\ \E k \in 1..MaxInFlight : req = [r \in Slots |-> IF r <= k THEN Idle ELSE Off]
    /\ sched = SchedIdle
    /\ extCalls = 0
    /\ posts = <<>>
    /\ last = Resp("none", 0, 0, 0, 0)

\* the requests of b@x.com (token 2), and the replies: prose without a topic,
\* and an array whose element is no object
RaceTokens == {2}
RaceReplies == {<<"x">>, <<"[", "s", "]">>}

\* manual monitoring requests of one user on the workers, and the clock
NextRace ==
    \/ \E r \in Slots, tok \in RaceTokens : manual_monitoring(r, tok)
    \/ \E r \in Slots, reply \in RaceReplies : manual_monitoring_reply(r, reply)
    \/ \E r \in Slots : ExternalCallRaises(r)
    \/ TickQuota

SpecRace == InitRace /\ [][NextRace]_vars

\* ====================================================================== claims

Owner(tok) == users[sessions[tok].user_id]
Expired(tok) == sessions[tok].expires_at < now

\* C3: token validation rejects a session token at every instant after its
\* expiry (401), however often it validated before: a token that is past its
\* expiry stays past it, and every validation of it answers 401; at every
\* instant up to and including its expiry a token whose user is active
\* validates (200) and yields that user.
C3_ExpiryDecidesValidation ==
    [][\A tok \in DOMAIN sessions :
          /\ Expired(tok) => (tok \in DOMAIN sessions' /\ Expired(tok)')
          /\ GetProfile(tok) =>
               /\ Expired(tok) => last'.status = 401
               /\ (~Expired(tok) /\ Owner(tok).is_active) =>
                     (last'.status = 200 /\ last'.user = sessions[tok].user_id)]_vars

\* C3 witness: an active user's token, validated after its expiry, was rejected.
C3_Witness ==
    /\ last.op = "get_profile"
    /\ last.status = 401
    /\ last.tok \in DOMAIN sessions
    /\ Expired(last.tok)
    /\ Owner(last.tok).is_active

\* C4 (as stated): while a user's active flag is false, every validation of any
\* of that user's sessions fails with 403.
C4_SuspendedAlways403 ==
    [][\A tok \in DOMAIN sessions :
          (GetProfile(tok) /\ ~Owner(tok).is_active) => last'.status = 403]_vars

\* C4 (amended): while a user's active flag is false, every validation of an
\* unexpired session of that user fails with 403 and every validation of an
\* expired one fails with 401 (expiry is tested first); a step that changes the
\* users table deletes or modifies no session row; once the flag is true again
\* the same unexpired tokens validate.
C4_SuspensionBlocksSessions ==
    [][/\ \A tok \in DOMAIN sessions :
            GetProfile(tok) =>
              /\ (~Owner(tok).is_active /\ ~Expired(tok)) => last'.status = 403
              /\ (~Owner(tok).is_active /\ Expired(tok)) => last'.status = 401
              /\ (Owner(tok).is_active /\ ~Expired(tok)) => last'.status = 200
       /\ users' # users => sessions' = sessions]_vars

\* C4 witness: an unexpired token of a suspended user was validated and refused
\* with 403, its session row still in the table.
C4_Witness ==
    /\ last.op = "get_profile"
    /\ last.status = 403
    /\ last.tok \in DOMAIN sessions
    /\ ~Expired(last.tok)
    /\ ~Owner(last.tok).is_active

\* C5: after any sequence of signups, overlapping or not, the first user
\* created is an admin and no user created later is.
C5_OnlyFirstUserAdmin ==
    \A i \in DOMAIN users : users[i].is_admin <=> (i = 1)

\* ---------------------------------------------------------------- quota claims
\* the user's UsageEvents stamped at or after the first instant of this month
ThisMonthEvents(user_id) ==
    {i \in DOMAIN usage_log : /\ usage_log[i].user_id = user_id
                              /\ usage_log[i].timestamp >= MonthStart(now)}

OverCeiling(u) == Cardinality(ThisMonthEvents(u.id)) >= u.monthly_limit

CostedRequest(r, tok) ==
    manual_monitoring(r, tok) \/ \E t \in 1..MaxTopics : brainstorm(r, tok, t)

\* C1: for an authenticated user, the quota check of a costed request rejects
\* with 429 exactly when the number of the user's UsageEvents stamped at or
\* after the first instant of the current month is >= the ceiling, and lets
\* the request go on otherwise, for every ceiling >= 0; events stamped before
\* the first instant of the month are not counted.
C1_RejectsExactlyAtCeiling ==
    [][\A r \in Slots, tok \in DOMAIN sessions :
          LET u == get_user_from_token(tok) IN
          (u.status = 200 /\ CostedRequest(r, tok)) =>
             /\ OverCeiling(u) => (last'.status = 429 /\ req'[r].pc = "idle")
             /\ ~OverCeiling(u) =>
                    (req'[r].pc = "await" \/ (last'.status # 429 /\ req'[r].pc = "idle"))]_vars

\* C1 witness: a request admitted in March for a user whose usage rows, all of
\* February, number at least the ceiling.
C1_Witness ==
    \E r \in Slots :
       /\ req[r].pc = "await"
       /\ req[r].at >= FebDays
       /\ req[r].limit > 0
       /\ Cardinality({i \in DOMAIN usage_log : usage_log[i].user_id = req[r].user})
             >= req[r].limit
       /\ \A i \in DOMAIN usage_log : usage_log[i].timestamp < FebDays

\* C2: in the manual monitoring request and in the brainstorm request, a
\* request rejected by the quota check makes no external call, persists no
\* Topic and records no UsageEvent and no ActivityEvent; and every external
\* call is made by a request that passed the quota check in the same step.
C2_QuotaGateBeforeCall ==
    [][/\ \A r \in Slots, tok \in DOMAIN sessions :
            LET u == get_user_from_token(tok) IN
            (u.status = 200 /\ OverCeiling(u) /\ CostedRequest(r, tok)) =>
               /\ extCalls' = extCalls
               /\ topics' = topics
               /\ usage_log' = usage_log
               /\ activity_log' = activity_log
               /\ req'[r].pc = "idle"
       /\ extCalls' # extCalls =>
            \E r \in Slots :
               /\ req[r].pc = "idle"
               /\ req'[r].pc = "await"
               /\ Cardinality(ThisMonthEvents(req'[r].user)) < req'[r].limit]_vars

\* C2 witness: a request of a user with ceiling 0 was answered 429 and the store
\* shows no external call, no Topic, no UsageEvent, no ActivityEvent of a request.
C2_Witness ==
    /\ last.op \in {"monitor", "brainstorm"}
    /\ last.status = 429
    /\ extCalls = 0
    /\ topics = <<>>
    /\ usage_log = <<>>
    /\ \A i \in DOMAIN activity_log :
          activity_log[i].action \notin {"manual_monitoring", "brainstorm"}

\* no slice of the text from a '[' to a later ']' parses as JSON
NoJsonArray(text) ==
    \A i, j \in DOMAIN text :
       (i < j /\ text[i] = "[" /\ text[j] = "]") => ~JsonLoads(SubSeq(text, i, j)).ok

UnparseableReplies == {text \in Replies : NoJsonArray(text)}

C10_OneUsageOneActivityPerReply ==
    [][\A r \in Slots, reply \in Replies :
          manual_monitoring_reply(r, reply) =>
             /\ Len(usage_log') = Len(usage_log) + 1
             /\ Len(activity_log') = Len(activity_log) + 1
             /\ activity_log'[Len(activity_log')].details = Len(topics') - Len(topics)]_vars

\* ------------------------------------------------------------ scheduler claims
\* the cadence rule: daily always, weekly on Monday, biweekly on a Monday of
\* the first 14 days of the month
Due(frequency, today) ==
    CASE frequency = "daily" -> TRUE
      [] frequency = "weekly" -> Weekday(today) = Monday
      [] frequency = "biweekly" -> Weekday(today) = Monday /\ DayOfMonth(today) <= BiweeklyLastDay
      [] OTHER -> FALSE

\* the user's UsageEvents of the month of the firing are below the ceiling
UnderCeiling(row, today) ==
    Cardinality({i \in DOMAIN usage_log : /\ usage_log[i].user_id = row.id
                                          /\ usage_log[i].timestamp >= MonthStart(today)})
       < row.monthly_limit

\* C6: on a scheduler firing a user is selected to run (the monitoring flow is
\* invoked) only when the cadence says so, and a user under the ceiling is
\* selected whenever it does: daily on every firing, weekly only on a Monday,
\* biweekly only on a Monday with day-of-month <= 14.
C6_CadenceDecidesSelection ==
    [][SchedExamine =>
          LET row == sched.rows[sched.idx]
              selected == sched'.pc = "call"
          IN  /\ selected => Due(row.frequency, sched.today)
              /\ (UnderCeiling(row, sched.today) /\ Due(row.frequency, sched.today))
                    => (selected /\ extCalls' = extCalls + 1)
              /\ ~selected => (extCalls' = extCalls /\ sched'.idx = sched.idx + 1)]_vars

\* C6 witness: on Monday the 15th a biweekly user under the ceiling was examined
\* and not selected.
C6_Witness ==
    /\ Weekday(sched.today) = Monday
    /\ DayOfMonth(sched.today) = BiweeklyLastDay + 1
    /\ \E k \in DOMAIN sched.examined :
          /\ sched.rows[k].frequency = "biweekly"
          /\ UnderCeiling(sched.rows[k], sched.today)
          /\ \A j \in DOMAIN sched.selected : sched.selected[j] # sched.rows[k].id

RowIds(rows) == [k \in DOMAIN rows |-> rows[k].id]

\* C7: a failure while one user is processed does not end the firing: the loop
\* goes on with the next row, and the firing ends only after every row of the
\* enumeration was examined and every row that was due and under the ceiling
\* was processed.
C7_FailureDoesNotAbortLoop ==
    [][/\ Len(sched'.failed) > Len(sched.failed) =>
            /\ sched'.pc = "loop"
            /\ sched'.idx = sched.idx + 1
            /\ sched'.rows = sched.rows
       /\ (sched.pc # "idle" /\ sched'.pc = "idle") =>
            /\ sched'.examined = RowIds(sched.rows)
            /\ \A k \in DOMAIN sched.rows :
                  (UnderCeiling(sched.rows[k], sched.today)
                     /\ Due(sched.rows[k].frequency, sched.today))
                  => \E j \in DOMAIN sched'.selected :
                        sched'.selected[j] = sched.rows[k].id]_vars

\* C7 witness: a firing over two users ended; the first user's processing
\* failed and the second was examined and processed after it.
C7_Witness ==
    /\ sched.pc = "idle"
    /\ Len(sched.rows) = 2
    /\ sched.failed # <<>>
    /\ sched.failed[1] = sched.rows[1].id
    /\ sched.examined = RowIds(sched.rows)
    /\ \E j \in DOMAIN sched.selected : sched.selected[j] = sched.rows[2].id

\* C8: for a selected user whose external call returns a reply (one whose parse
\* raises nothing), the scheduler persists every Topic parsed from the reply
\* under that user's id and appends exactly one UsageEvent of kind
\* scheduled_monitoring for that user.
C8_SchedulerPersistsAndRecords ==
    [][\A reply \in Replies :
          (SchedReply(reply) /\ Parsed[reply].error = "none") =>
             LET uid == sched.rows[sched.idx].id
                 kinds == Parsed[reply].kinds
             IN  /\ topics' = topics \o [k \in 1..Len(kinds) |-> TopicRow(uid, kinds[k])]
                 /\ Len(usage_log') = Len(usage_log) + 1
                 /\ usage_log'[Len(usage_log')].user_id = uid
                 /\ usage_log'[Len(usage_log')].action_type = "scheduled_monitoring"]_vars

\* ------------------------------------------------------------ failure claims
\* a manual invocation fails: the external call raises, or a step after it does
ManualFailure(r) ==
    \/ ExternalCallRaises(r)
    \/ \E reply \in Replies : manual_monitoring_reply(r, reply) /\ Parsed[reply].error # "none"
    \/ brainstorm_reply(r, FALSE)

\* the processing of a user fails inside a scheduler firing
SchedFailure ==
    \/ SchedCallRaises
    \/ \E reply \in Replies : SchedReply(reply) /\ monitor_industry_news(reply).raised # "none"

NotOwnTopic(topic_id, user_id) ==
    topic_id \notin DOMAIN topics \/ topics[topic_id].user_id # user_id

\* C12: a brainstorm request that passes the quota gate and names a topic id
\* that does not exist or belongs to another user is answered 404, makes no
\* external call and records no UsageEvent.
C12_MissingTopicIs404 ==
    [][\A r \in Slots, tok \in DOMAIN sessions, t \in 1..MaxTopics :
          LET u == get_user_from_token(tok) IN
          (u.status = 200 /\ ~OverCeiling(u) /\ NotOwnTopic(t, u.id) /\ brainstorm(r, tok, t)) =>
             /\ last'.status = 404
             /\ extCalls' = extCalls
             /\ usage_log' = usage_log]_vars

\* ------------------------------------------------------------- topic claims
\* C13: for an authenticated caller, update_topic_status with a status outside
\* the five valid ones answers 400 and changes no Topic row; with a valid
\* status and a topic id that does not exist or is owned by another user it
\* answers 200 and changes no Topic row; with a valid status and an owned topic
\* it answers 200 and changes that topic's status and nothing else.
C13_StatusUpdateFrame ==
    [][\A tok \in DOMAIN sessions, id \in 1..(MaxTopics + 1), status \in StatusInputs :
          LET u == get_user_from_token(tok) IN
          (u.status = 200 /\ update_topic_status(tok, id, status)) =>
             /\ status \notin {"new", "reviewed", "drafted", "published", "archived"} =>
                   (last'.status = 400 /\ topics' = topics)
             /\ (status \in {"new", "reviewed", "drafted", "published", "archived"}
                   /\ NotOwnTopic(id, u.id)) =>
                   (last'.status = 200 /\ topics' = topics)
             /\ (status \in {"new", "reviewed", "drafted", "published", "archived"}
                   /\ ~NotOwnTopic(id, u.id)) =>
                   /\ last'.status = 200
                   /\ topics' = [topics EXCEPT ![id] = [@ EXCEPT !.status = status]]]_vars

\* C13 witness: a status update was answered 200 while a topic of another user
\* than the caller exists, every topic still "new" but one of the caller's own.
C13_Witness ==
    /\ last.op = "update_topic_status"
    /\ last.status = 200
    /\ \E i, j \in DOMAIN topics :
          /\ topics[i].user_id # last.user
          /\ topics[i].status = "new"
          /\ topics[j].user_id = last.user
          /\ topics[j].status = "archived"

\* C14: get_digest(user, D) answers with exactly the Topics owned by the user
\* with status new that were created within the trailing D days, ordered by
\* descending relevance score and, among equal scores, by descending creation
\* time.
C14_DigestIsWindowSorted ==
    [][\A tok \in DOMAIN sessions, days \in DigestDays :
          LET u == get_user_from_token(tok) IN
          (u.status = 200 /\ get_digest(tok, days)) =>
             /\ last'.status = 200
             /\ {last'.rows[k] : k \in DOMAIN last'.rows}
                  = {i \in DOMAIN topics : /\ topics[i].user_id = u.id
                                           /\ topics[i].status = "new"
                                           /\ topics[i].created_at > now - Days(days)}
             /\ \A a, b \in DOMAIN last'.rows :
                   a < b => InDigestOrder(last'.rows[a], last'.rows[b])]_vars

\* -------------------------------------------------------------- post claims
\* the Post rows of a topic
PostsOf(topic_id) == {i \in DOMAIN posts : posts[i].topic_id = topic_id}

\* C15: when saves do not overlap, the k-th post saved for a topic gets version
\* k, independently per topic (the versions of a topic's posts, in the order
\* saved, are 1, 2, ...), and every save appends one row and leaves every
\* existing Post row unchanged.
C15_VersionsCountPerTopic ==
    [][\A r \in Slots :
          save_post_insert(r) =>
             /\ Len(posts') = Len(posts) + 1
             /\ SubSeq(posts', 1, Len(posts)) = posts
             /\ posts'[Len(posts')].topic_id = req[r].topic
             /\ posts'[Len(posts')].version = Cardinality(PostsOf(req[r].topic)) + 1]_vars

\* C15 witness: two saves for topic 1 got versions 1 and 2, and a save for
\* topic 2 made between them got version 1.
C15_Witness ==
    /\ Len(posts) = 3
    /\ posts[1].topic_id = 1 /\ posts[1].version = 1
    /\ posts[2].topic_id = 2 /\ posts[2].version = 1
    /\ posts[3].topic_id = 1 /\ posts[3].version = 2

\* C20: save_post reads the maximum version and inserts maximum + 1 in two
\* steps, so saves for one topic that overlap can be given the same version:
\* the row inserted carries the version computed at the read, whatever was
\* inserted since, and it repeats a version of its topic exactly when another
\* save for the topic was inserted between its read and its insert.
C20_StaleReadDuplicatesVersion ==
    [][\A r \in Slots :
          save_post_insert(r) =>
             LET t == req[r].topic
                 v == req[r].version
             IN  /\ posts'[Len(posts')].version = v
                 /\ v <= Cardinality(PostsOf(t)) + 1
                 /\ (\E i \in PostsOf(t) : posts[i].version = v) <=> (MaxVersion(t) >= v)]_vars

\* C20 witness: two Post rows of one topic carry the same version.
C20_Witness ==
    \E i, j \in DOMAIN posts :
       /\ i # j
       /\ posts[i].topic_id = posts[j].topic_id
       /\ posts[i].version = posts[j].version

\* ------------------------------------------------------------ profile claims
ProfileFields ==
    {"focus_areas", "target_audience", "content_goals", "tone", "monitoring_frequency"}

\* C16: for an authenticated caller, update_profile sets exactly the fields
\* supplied in the request to the values supplied and leaves every unsupplied
\* field of that profile, and every other user's profile, unchanged; a request
\* whose monitoring_frequency is not daily, weekly or biweekly is answered 400
\* and changes no field of any profile, even when valid fields come with it.
C16_PartialProfileUpdate ==
    [][\A tok \in DOMAIN sessions, settings \in SettingsInputs :
          LET u == get_user_from_token(tok) IN
          (u.status = 200 /\ update_profile(tok, settings)) =>
             IF \E f \in settings.monitoring_frequency : f \notin {"daily", "weekly", "biweekly"}
               THEN last'.status = 400 /\ profiles' = profiles
               ELSE /\ last'.status = 200
                    /\ \A i \in DOMAIN profiles : i # u.id => profiles'[i] = profiles[i]
                    /\ \A f \in ProfileFields :
                          /\ settings[f] = {} => profiles'[u.id][f] = profiles[u.id][f]
                          /\ settings[f] # {} => profiles'[u.id][f] \in settings[f]]_vars

\* C16 witness: a request with an invalid frequency was answered 400 for a user
\* whose profile shows an earlier update of one field, every other field and
\* the other user's profile still the defaults.
C16_Witness ==
    /\ last.op = "update_profile"
    /\ last.status = 400
    /\ last.user = 2
    /\ profiles[2] = [default_profile EXCEPT !.target_audience = "a2"]
    /\ profiles[1] = default_profile

\* ------------------------------------------------------------ session claims
\* C17: no step deletes or modifies a Session row: the table only grows, by at
\* most one row per step, and the row added (by a login or a signup) expires 30
\* days after the instant it is issued; every token of an active user validates
\* at every instant up to its own expiry, however many sessions were issued to
\* the user since, and stops validating only after it.
C17_SessionsOnlyExpire ==
    [][/\ Len(sessions') \in {Len(sessions), Len(sessions) + 1}
       /\ SubSeq(sessions', 1, Len(sessions)) = sessions
       /\ Len(sessions') = Len(sessions) + 1 =>
            /\ sessions'[Len(sessions')].expires_at = now + Days(SessionDays)
            /\ last'.op \in {"login", "signup"}
            /\ last'.tok = Len(sessions')
       /\ \A tok \in DOMAIN sessions :
            (GetProfile(tok) /\ Owner(tok).is_active) =>
               (last'.status = 200 <=> now <= sessions[tok].expires_at)]_vars

\* C17 witness: a user holds two sessions issued at different instants; the
\* earlier token was validated after the later was issued, at an instant when
\* both are unexpired, and was accepted.
C17_Witness ==
    /\ last.op = "get_profile"
    /\ last.status = 200
    /\ last.tok \in DOMAIN sessions
    /\ \E later \in DOMAIN sessions :
          /\ later > last.tok
          /\ sessions[later].user_id = sessions[last.tok].user_id
          /\ sessions[later].expires_at > sessions[last.tok].expires_at
          /\ ~Expired(later)
          /\ ~Expired(last.tok)

\* -------------------------------------------------------------- admin claims
\* a request to one of the four admin routes with the token
AdminRoute(tok) ==
    \/ get_all_users(tok)
    \/ \E limit \in ActivityLimits : get_activity_log(tok, limit)
    \/ get_usage_stats(tok)
    \/ \E id \in 1..MaxUsers, pl \in Opt({1}), pd \in Opt(BOOLEAN) :
          update_user_admin(tok, id, {}, pl, pd)

\* C18: a request to an admin route (list users, update user, activity log,
\* usage stats) whose caller's admin flag is false in the store at the time of
\* the request is refused and changes no table; it is refused with 403 when the
\* token validates (an expired token is refused 401 before the flag is looked
\* at).  The flag is the one in the users row at the time of the request, so a
\* demoted user is refused at the next request with the same token.
C18_NonAdminRefused ==
    [][\A tok \in DOMAIN sessions :
          (~Owner(tok).is_admin /\ AdminRoute(tok)) =>
             /\ last'.status \in {401, 403}
             /\ (Owner(tok).is_active /\ ~Expired(tok)) => last'.status = 403
             /\ UNCHANGED store]_vars

\* C18 witness: a user who made an admin update earlier, demoted since, was
\* refused with 403 on an admin route with an unexpired token.
C18_Witness ==
    /\ last.op \in {"admin_users", "admin_activity", "admin_usage_stats", "admin_update_user"}
    /\ last.status = 403
    /\ last.tok \in DOMAIN sessions
    /\ ~Expired(last.tok)
    /\ Owner(last.tok).is_active
    /\ ~Owner(last.tok).is_admin
    /\ \E i \in DOMAIN activity_log :
          /\ activity_log[i].action = "admin_update_user"
          /\ activity_log[i].user_id = sessions[last.tok].user_id

\* ---------------------------------------------------------------- race claims
\* the worker processes running: at most that many requests are in flight
Workers == {r \in Slots : req[r].pc # "off"}

\* C19: with a fixed ceiling L and at most k costed operations of a user in
\* flight at once, the number of the user's UsageEvents of the current month
\* never exceeds L + k - 1; with no overlap (k = 1) it never exceeds L.
C19_ExcessBoundedByInFlight ==
    \A u \in DOMAIN users :
       Cardinality(ThisMonthEvents(u)) <= users[u].monthly_limit + Cardinality(Workers) - 1

\* C19 witness: with two workers, two overlapping requests both passed the
\* check before either recorded its usage, and the user's events of the month
\* number the ceiling plus one.
C19_Witness ==
    /\ Cardinality(Workers) = 2
    /\ \E u \in DOMAIN users :
          /\ users[u].monthly_limit >= 1
          /\ Cardinality(ThisMonthEvents(u)) = users[u].monthly_limit + 1
          /\ \E i, j \in ThisMonthEvents(u) : i # j

\* --------------------------------------------------- scheduler skip claims
\* C21: on a scheduler firing the monitoring flow is never invoked for a user
\* who is inactive, who has no Profile, or whose usage of the current month is
\* >= the ceiling at the moment the user is examined; and a user who is skipped
\* gets no external call, no new Topic and no new UsageEvent.
C21_SchedulerNeverRunsOverCeiling ==
    [][SchedExamine =>
          LET uid == sched.rows[sched.idx].id
              invoked == sched'.pc = "call"
          IN  /\ invoked =>
                   /\ users[uid].is_active
                   /\ uid \in DOMAIN profiles
                   /\ Cardinality(ThisMonthEvents(uid)) < users[uid].monthly_limit
              /\ ~invoked =>
                   /\ extCalls' = extCalls
                   /\ topics' = topics
                   /\ usage_log' = usage_log]_vars

\* --------------------------------------------------- tenant isolation of topics
\* the rows of the topics table that a step changed or added
TouchedTopics ==
    {i \in DOMAIN topics' : i \notin DOMAIN topics \/ topics'[i] # topics[i]}

\* C22: tenant isolation of the topics.  get_digest returns only topics owned
\* by the caller; brainstorm goes on to the external call only with a topic
\* owned by the caller; update_topic_status changes only topics owned by the
\* caller; every topic a monitoring run creates, manual or scheduled, is owned by
\* the user the run was made for; no step removes a topic or changes its owner.
C22_TopicsAreTenantIsolated ==
    [][/\ last'.op = "get_digest" /\ last'.status = 200 =>
            \A tok \in TokenInputs, days \in DigestDays :
               get_digest(tok, days) =>
                  \A k \in DOMAIN last'.rows :
                     topics[last'.rows[k]].user_id = sessions[tok].user_id
       /\ \A r \in Slots :
            req[r].pc = "idle" /\ req'[r].pc = "await" =>
               \A tok \in TokenInputs :
                  /\ manual_monitoring(r, tok) => req'[r].user = sessions[tok].user_id
                  /\ \A t \in 1..MaxTopics :
                        brainstorm(r, tok, t) =>
                           /\ t \in DOMAIN topics
                           /\ topics[t].user_id = sessions[tok].user_id
                           /\ req'[r].user = sessions[tok].user_id
       /\ TouchedTopics # {} =>
            /\ \A tok \in TokenInputs, id \in 1..(MaxTopics + 1), status \in StatusInputs :
                  update_topic_status(tok, id, status) =>
                     \A i \in TouchedTopics :
                        /\ i \in DOMAIN topics
                        /\ tok \in DOMAIN sessions
                        /\ topics[i].user_id = sessions[tok].user_id
            /\ \A r \in Slots, reply \in Replies :
                  manual_monitoring_reply(r, reply) =>
                     \A i \in TouchedTopics :
                        i \notin DOMAIN topics /\ topics'[i].user_id = req[r].user
            /\ \A reply \in Replies :
                  SchedReply(reply) =>
                     \A i \in TouchedTopics :
                        /\ i \notin DOMAIN topics
                        /\ topics'[i].user_id = sched.rows[sched.idx].id
       /\ \A i \in DOMAIN topics :
            i \in DOMAIN topics' /\ topics'[i].user_id = topics[i].user_id]_vars

\* a digest answered with rows while a topic of another user, also new and
\* no older than the rows returned, is in the table
C22_Witness ==
    /\ last.op = "get_digest"
    /\ last.status = 200
    /\ last.rows # <<>>
    /\ \E i \in DOMAIN topics :
          /\ topics[i].user_id # last.user
          /\ topics[i].status = "new"
          /\ \A k \in DOMAIN last.rows : topics[i].created_at >= topics[last.rows[k]].created_at
====
